---- MODULE Spec2Model ----
(***************************************************************************)
(* Route lifecycle of llm-api-engine: the route cleaning functions, the    *)
(* key-value store and the HTTP handlers that create, read, re-run,        *)
(* update and delete routes.                                               *)
(*                                                                         *)
(* A string is a sequence of one-character strings.                        *)
(***************************************************************************)
EXTENDS Integers, Sequences, FiniteSets, TLC

\* ------------------------------------------------------------------ bounds
MaxLen == 3

\* ------------------------------------------------------- character classes
LowerLetters == {"a", "b"}
Digits == {"1"}
Alphabet == {"a", "B", "1", "_", "-", " ", "!"}
Chars == Alphabet \cup LowerLetters

\* String.prototype.toLowerCase on one character
LowerChar(c) == IF c = "B" THEN "b" ELSE c

\* [a-z0-9]
Alnum == LowerLetters \cup Digits

\* [a-z0-9-_]
RouteChars == Alnum \cup {"-", "_"}

\* \s
Whitespace == {" "}

\* [a-z0-9-_\s]
RouteCharsOrSpace == RouteChars \cup Whitespace

\* -
Hyphen == {"-"}

\* [^a-z0-9]
NotAlnum == Chars \ Alnum

\* ------------------------------------------------------- string primitives
toLowerCase(s) == [i \in 1..Len(s) |-> LowerChar(s[i])]

\* s.replace(/[^class]/g, '-') : every character outside the class becomes "-"
ReplaceOutsideByHyphen(s, class) ==
  [i \in 1..Len(s) |-> IF s[i] \in class THEN s[i] ELSE "-"]

\* s.replace(/[^class]/g, '') : every character outside the class is removed
RemoveOutside(s, class) == SelectSeq(s, LAMBDA c : c \in class)

\* s without its longest prefix made of characters of the class
RECURSIVE DropWhile(_, _)
DropWhile(s, class) ==
  IF s # <<>> /\ Head(s) \in class THEN DropWhile(Tail(s), class) ELSE s

\* s.replace(/[class]+/g, '-') : every maximal run of the class becomes one "-"
RECURSIVE RunsToHyphen(_, _)
RunsToHyphen(s, class) ==
  IF s = <<>> THEN <<>>
  ELSE IF Head(s) \in class
       THEN <<"-">> \o RunsToHyphen(DropWhile(s, class), class)
       ELSE <<Head(s)>> \o RunsToHyphen(Tail(s), class)

Rev(s) == [i \in 1..Len(s) |-> s[Len(s) + 1 - i]]

\* s.replace(/^-|-$/g, '') : one leading and one trailing hyphen removed
StripOneHyphenEachEnd(s) ==
  LET t == IF s # <<>> /\ Head(s) = "-" THEN Tail(s) ELSE s
  IN IF t # <<>> /\ t[Len(t)] = "-" THEN SubSeq(t, 1, Len(t) - 1) ELSE t

\* s.replace(/^-+|-+$/g, '') : all leading and all trailing hyphens removed
StripHyphenRuns(s) == Rev(DropWhile(Rev(DropWhile(s, Hyphen)), Hyphen))

\* String.prototype.trim
trim(s) == Rev(DropWhile(Rev(DropWhile(s, Whitespace)), Whitespace))

\* ------------------------------------------------------- route cleanings
\* the server cleaning with the hyphens stripped before the runs are collapsed
cleanRoute_stripFirst(route) ==
  trim(RunsToHyphen(StripOneHyphenEachEnd(
    ReplaceOutsideByHyphen(toLowerCase(route), RouteChars)), Hyphen))

\* POST /deploy: route.toLowerCase().replace(/[^a-z0-9-_]/g,'-')
\*   .replace(/-+/g,'-').replace(/^-|-$/g,'').trim()
cleanRoute(route) ==
  trim(StripOneHyphenEachEnd(RunsToHyphen(
    ReplaceOutsideByHyphen(toLowerCase(route), RouteChars), Hyphen)))

\* the handleDeploy cleaning with the server's regex: special characters become hyphens
handleDeployCleanRoute_hyphenate(routeInput) ==
  trim(RunsToHyphen(RunsToHyphen(
    ReplaceOutsideByHyphen(toLowerCase(routeInput), RouteCharsOrSpace), Whitespace), Hyphen))

\* handleDeploy: routeInput.toLowerCase().replace(/[^a-z0-9-_\s]/g,'')
\*   .replace(/\s+/g,'-').replace(/-+/g,'-').trim()
handleDeployCleanRoute(routeInput) ==
  trim(RunsToHyphen(RunsToHyphen(
    RemoveOutside(toLowerCase(routeInput), RouteCharsOrSpace), Whitespace), Hyphen))

\* 'Deploy API' button: query.toLowerCase().replace(/[^a-z0-9]+/g,'-')
\*   .replace(/^-+|-+$/g,'')
deployButtonRoute(query) ==
  StripHyphenRuns(RunsToHyphen(toLowerCase(query), NotAlnum))


\* the strings over Alphabet of length at most n
RECURSIVE StringsUpTo(_)
StringsUpTo(n) ==
  IF n = 0 THEN {<<>>}
  ELSE LET shorter == StringsUpTo(n - 1)
       IN shorter \cup {Append(t, c) : t \in {u \in shorter : Len(u) = n - 1}, c \in Alphabet}

\* ------------------------------------------------------- JSON values
\* A JSON object is a record; an absent field is a field outside its DOMAIN.
\* A timestamp (an ISO string in the code) is the integer instant it denotes.
NULL == [null |-> TRUE]

\* JSON.stringify(obj): the JSON text of obj
JSONstringify(obj) == [json |-> obj]

\* stored texts that are not JSON: some text, and the empty string
GarbageText == [text |-> "not json"]

EmptyText == [text |-> ""]

\* typeof v === 'string', for the values the store hands back
IsString(v) == DOMAIN v = {"json"} \/ DOMAIN v = {"text"}

\* JSON.parse(text) throws a SyntaxError
parseThrows(text) == "json" \notin DOMAIN text

\* JSON.parse(text), when it does not throw
JSONparse(text) == text.json

\* !v, for the values the store hands back: null and '' are falsy
Falsy(v) == v = NULL \/ v = EmptyText

\* the field `as` of a JSON response: left out when obj.name is undefined
Pick(obj, name, as) == IF name \in DOMAIN obj THEN (as :> obj[name]) ELSE <<>>

\* ------------------------------------------------------- the store (Upstash Redis)
\* the store key `api/results/${endpoint}`
StoreKey(endpoint) == <<"api/results/">> \o endpoint

\* a set that leaves a key that holds a value as it is
redisSet_ifAbsent(st, key, value) ==
  IF key \in DOMAIN st THEN st
  ELSE (key :> (IF DOMAIN value = {"json"} THEN value ELSE [json |-> value])) @@ st

\* redis.set(key, value): a string is stored as it is, any other value as its JSON text
redisSet(st, key, value) ==
  (key :> (IF IsString(value) THEN value ELSE JSONstringify(value))) @@ st

\* redis.get(key): null when absent, otherwise the stored text deserialized; a text
\* that is not JSON is handed back as the string it is
redisGet(st, key) ==
  IF key \notin DOMAIN st THEN NULL
  ELSE IF parseThrows(st[key]) THEN st[key] ELSE JSONparse(st[key])

\* the key left in place
redisDel_keep(st, key) == st

\* redis.del(key)
redisDel(st, key) == [k \in DOMAIN st \ {key} |-> st[k]]

\* ------------------------------------------------------- request inputs
\* the request slots: two handlers can be in flight at once
Procs == {1, 2}

MaxClock == 1

\* "a B", "a-b", "!", ""
RawRoutes == {<<"a", " ", "B">>, <<"a", "-", "b">>, <<"!">>, <<>>}

KeyInputs == {<<"a", "-", "b">>, <<>>}

\* params.endpoint / body.endpoint of the read, re-run, update and delete requests
EndpointInputs == {<<"a", " ", "B">>, <<"a", "-", "b">>, <<>>}

Schema1 == [type |-> "object", properties |-> <<>>]

Envelope1 ==
  [data |-> [price |-> 123],
   metadata |-> [query |-> "q", schema |-> Schema1,
                 sources |-> <<"https://a.com">>, lastUpdated |-> 20240101]]

Envelope2 ==
  [data |-> [price |-> 456],
   metadata |-> [query |-> "q", schema |-> Schema1,
                 sources |-> <<"https://b.com">>, lastUpdated |-> 20240202]]

\* a body.data without metadata
BadEnvelope == [data |-> [price |-> 123]]

DeployBodies ==
  {[key |-> k, data |-> d, route |-> r] :
     k \in KeyInputs, d \in {Envelope1, Envelope2, BadEnvelope}, r \in RawRoutes}

\* ------------------------------------------------------- state
VARIABLES
  store,      \* the Redis contents: store key -> stored JSON text
  req,        \* per request slot: the handler in flight and its locals
  now,        \* the clock read by new Date()
  createdBy,  \* history: normalized store key -> raw route of the create that succeeded on it
  routeInput, \* the string handed to the route cleanings
  cleaned,    \* the three cleanings of routeInput
  recleaned,  \* the three cleanings applied to their own results
  wiz         \* the React state of the builder page (the wizard)

vars == <<store, req, now, createdBy, routeInput, cleaned, recleaned, wiz>>

Idle == [pc |-> "idle"]

\* a request is taken by the lowest free slot
FreeSlot(p) == req[p].pc = "idle" /\ \A q \in Procs : q < p => req[q].pc # "idle"

NoCleaning == [done |-> FALSE]

\* JSON.stringify(undefined), and a field that is undefined
UNDEFINED == [undefined |-> TRUE]

\* no extraction in flight
NotExtracting == [pc |-> "idle"]

\* the useState initial values of the page, with a query typed in at the query step
WizInit ==
  [step |-> "query", loading |-> FALSE, error |-> "", isTransitioning |-> FALSE,
   schemaStr |-> EmptyText, schemaFetch |-> "idle",
   searchResults |-> <<>>, handleSearch |-> "idle", handleNewSearch |-> "idle",
   customUrl |-> "", extracting |-> NotExtracting, extractedData |-> NULL,
   isDeployed |-> FALSE, sentSources |-> <<>>]


\* ------------------------------------------------------- POST /api/deploy
\* deployRequestSchema, the data part
envelopeValid(d) ==
  /\ {"data", "metadata"} \subseteq DOMAIN d
  /\ {"query", "schema", "sources", "lastUpdated"} \subseteq DOMAIN d.metadata
  /\ {"type", "properties"} \subseteq DOMAIN d.metadata.schema

\* deployRequestSchema.parse(body) succeeds
deployRequestValid(body) ==
  /\ Len(body.key) >= 1
  /\ envelopeValid(body.data)
  /\ Len(body.route) >= 1

\* the data part of deployRequestSchema.parse(body): unknown keys are stripped
deployRequestData(body) ==
  LET m == body.data.metadata
  IN [data |-> body.data.data,
      metadata |-> [query |-> m.query,
                    schema |-> [type |-> m.schema.type, properties |-> m.schema.properties]
                                 @@ Pick(m.schema, "required", "required"),
                    sources |-> m.sources,
                    lastUpdated |-> m.lastUpdated]]

\* the key built from the route as it was sent, not from the cleaned route
deployStoreKey_raw(route) == StoreKey(route)

\* `api/results/${cleanRoute}`, the key POST /deploy reads and writes
deployStoreKey(route) == StoreKey(cleanRoute(route))

\* the existence check left out
routeExists_never(existingRoute) == FALSE

\* if (existingRoute)
routeExists(existingRoute) == ~Falsy(existingRoute)

\* `${apiRoute}/api/results/${cleanRoute}`
fullUrl(cleaned_route) == <<"http://localhost:3000", "/">> \o StoreKey(cleaned_route)

\* the answer of POST /deploy up to the existence check: 400 when the body fails
\* deployRequestSchema, 409 when the route is found, 0 when the handler goes on
deployCheck(st, body) ==
  IF ~deployRequestValid(body)
  THEN [status |-> 400, success |-> FALSE, error |-> "Validation error"]
  ELSE IF routeExists(redisGet(st, deployStoreKey(body.route)))
       THEN [status |-> 409, success |-> FALSE, error |-> "Route already exists"]
       ELSE [status |-> 0]

\* the locals of a POST /deploy that passed the check
deployLocals(body) ==
  [pc |-> "deploySet", key |-> body.key, route |-> body.route,
   data |-> deployRequestData(body)]

\* the store after the redis.set of POST /deploy
deploySet(st, locals) ==
  redisSet(st, deployStoreKey(locals.route), JSONstringify(locals.data))

\* the success response of POST /deploy
deployResponse(locals) ==
  [status |-> 200, success |-> TRUE,
   message |-> "API endpoint deployed successfully",
   route |-> cleanRoute(locals.route),
   url |-> fullUrl(cleanRoute(locals.route))]

\* POST /deploy answers 400 or 409: nothing is written
DeployReject(body) ==
  /\ deployCheck(store, body).status # 0
  /\ UNCHANGED <<store, req, now, createdBy, routeInput, cleaned, recleaned, wiz>>

\* POST /deploy finds no route and goes on to the set
DeployProceed(p, body) ==
  /\ FreeSlot(p)
  /\ deployCheck(store, body).status = 0
  /\ req' = [req EXCEPT ![p] = deployLocals(body)]
  /\ UNCHANGED <<store, now, createdBy, routeInput, cleaned, recleaned, wiz>>

\* redis.set and the success response
DeploySet(p) ==
  /\ req[p].pc = "deploySet"
  /\ store' = deploySet(store, req[p])
  /\ req' = [req EXCEPT ![p] = Idle]
  /\ createdBy' = (StoreKey(cleanRoute(req[p].route)) :> req[p].route) @@ createdBy
  /\ UNCHANGED <<now, routeInput, cleaned, recleaned, wiz>>

\* ------------------------------------------------------- GET /api/results/[endpoint]
\* `api/results/${params.endpoint}`
resultsKey(endpoint) == StoreKey(endpoint)

\* the schema asked for whatever the query string says
includeSchema_always(schemaParam) == TRUE

\* searchParams.get('schema') === 'true'
includeSchema(schemaParam) == schemaParam = "true"

\* the answer of the catch around JSON.parse(results)
resultsParseFailure ==
  [status |-> 500, success |-> FALSE, error |-> "Invalid data format in storage"]

\* the response of GET /api/results/<endpoint>?schema=<schemaParam> on store st
resultsGET(st, endpoint, schemaParam) ==
  IF endpoint = <<>>
  THEN [status |-> 400, success |-> FALSE, error |-> "Endpoint parameter is required"]
  ELSE LET results == redisGet(st, resultsKey(endpoint))
       IN IF Falsy(results)
          THEN [status |-> 404, success |-> FALSE,
                error |-> "No results found for this endpoint"]
          ELSE IF IsString(results) /\ parseThrows(results)
          THEN resultsParseFailure
          ELSE LET storedData == IF IsString(results) THEN JSONparse(results) ELSE results
                   metadata == IF "metadata" \in DOMAIN storedData
                               THEN storedData.metadata ELSE <<>>
               IN IF includeSchema(schemaParam)
                  THEN [status |-> 200, success |-> TRUE, data |-> storedData]
                  ELSE [status |-> 200, success |-> TRUE]
                       @@ Pick(storedData, "data", "data")
                       @@ Pick(metadata, "lastUpdated", "lastUpdated")
                       @@ Pick(metadata, "sources", "sources")

\* a read answers and writes nothing
ResultsGET(endpoint, schemaParam) ==
  /\ resultsGET(store, endpoint, schemaParam).status \in {200, 400, 404, 500}
  /\ UNCHANGED <<store, req, now, createdBy, routeInput, cleaned, recleaned, wiz>>

\* ------------------------------------------------------- POST /api/extract
\* extractRequestSchema.parse(body) succeeds
extractRequestValid(body) ==
  /\ {"urls", "query", "schema"} \subseteq DOMAIN body
  /\ Len(body.urls) >= 1

\* the JSON answer of POST /api/extract
extractPOST(body, t) ==
  IF extractRequestValid(body)
  THEN [success |-> TRUE,
        data |-> [i \in 1..Len(body.urls) |->
                    [url |-> body.urls[i],
                     data |-> [source |-> body.urls[i], lastUpdated |-> t],
                     metadata |-> [extractedAt |-> t]]]]
  ELSE [success |-> FALSE, error |-> "Invalid extract request"]

\* the fetch of /api/extract either answers or throws
NetOutcomes == {"ok", "down"}

\* ------------------------------------------------------- /api/routes
UrlInputs == {<<"https://a.com">>, <<>>}

QueryInputs == {<<"q">>, <<>>}

\* PUT bodies: every field given (some empty), schema left out, urls left out,
\* query left out
PutBodies ==
  {[endpoint |-> e, urls |-> u, query |-> q, schema |-> Schema1] :
     e \in EndpointInputs, u \in UrlInputs, q \in QueryInputs}
  \cup {[endpoint |-> <<"a", "-", "b">>, urls |-> <<"https://a.com">>, query |-> <<"q">>]}
  \cup {[endpoint |-> <<"a", "-", "b">>, query |-> <<"q">>, schema |-> Schema1]}
  \cup {[endpoint |-> <<"a", "-", "b">>, urls |-> <<"https://a.com">>, schema |-> Schema1]}

\* !body.name for a string field: undefined or ''
Missing(body, name) == name \notin DOMAIN body \/ body[name] = <<>>

\* !body.name for an array or object field: undefined
Absent(body, name) == name \notin DOMAIN body

\* the check of urls left out
putInvalid_urlsUnchecked(body) ==
  Missing(body, "endpoint") \/ Missing(body, "query") \/ Absent(body, "schema")

\* !endpoint || !urls || !query || !schema
putInvalid(body) ==
  Missing(body, "endpoint") \/ Absent(body, "urls") \/ Missing(body, "query") \/ Absent(body, "schema")

\* `api/results/${endpoint}`, the key the /api/routes handlers read, write and delete
routesKey(endpoint) == StoreKey(endpoint)

\* the configuration PUT stores
putConfig(body, t) ==
  Pick(body, "urls", "urls") @@ Pick(body, "query", "query") @@ Pick(body, "schema", "schema")
  @@ [createdAt |-> t, updatedAt |-> t]

\* the success flag of the extraction never looked at
extractFailed_never(net, extractData) == net = "down"

\* the fetch of /api/extract threw, or if (!extractData.success) throws
extractFailed(net, extractData) == net = "down" \/ ~extractData.success

\* JSON.stringify({ urls, query, schema }), the body PUT sends to /api/extract
putExtractBody(body) ==
  Pick(body, "urls", "urls") @@ Pick(body, "query", "query") @@ Pick(body, "schema", "schema")

\* PUT /api/routes: the store it leaves, the bodies it sent to /api/extract and its
\* response
routesPUT(st, body, net, t) ==
  IF putInvalid(body)
  THEN [store |-> st, calls |-> <<>>,
        resp |-> [status |-> 400, success |-> FALSE, error |-> "Missing required parameters: endpoint, urls, query, and schema are required"]]
  ELSE LET extractData == extractPOST(putExtractBody(body), t)
       IN IF extractFailed(net, extractData)
          THEN [store |-> st, calls |-> <<putExtractBody(body)>>,
                resp |-> [status |-> 500, success |-> FALSE, error |-> "Failed to deploy route"]]
          ELSE [store |-> redisSet(st, routesKey(body.endpoint), putConfig(body, t)),
                calls |-> <<putExtractBody(body)>>,
                resp |-> [status |-> 200, success |-> TRUE,
                          message |-> "Route deployed successfully",
                          url |-> <<"/">> \o StoreKey(body.endpoint)]
                         @@ Pick(extractData, "data", "data")]

RoutesPUT(body, net) ==
  /\ store' = routesPUT(store, body, net, now).store
  /\ UNCHANGED <<req, now, createdBy, routeInput, cleaned, recleaned, wiz>>

\* DELETE /api/routes: the store it leaves and its response
routesDELETE(st, endpoint) ==
  IF endpoint = <<>>
  THEN [store |-> st,
        resp |-> [status |-> 400, success |-> FALSE, error |-> "Endpoint parameter is required"]]
  ELSE [store |-> redisDel(st, routesKey(endpoint)),
        resp |-> [status |-> 200, success |-> TRUE, message |-> "Route deleted successfully"]]

RoutesDELETE(endpoint) ==
  /\ store' = routesDELETE(store, endpoint).store
  /\ createdBy' = [k \in DOMAIN createdBy \cap DOMAIN store' |-> createdBy[k]]
  /\ UNCHANGED <<req, now, routeInput, cleaned, recleaned, wiz>>

\* the store answers, or the request to it throws
TransportOutcomes == {"ok", "down"}

\* the keys redis.keys('api/results/*') hands back
redisKeys(st) == {k \in DOMAIN st : Len(k) >= 1 /\ k[1] = "api/results/"}

\* key.replace('api/results/', '')
listEndpoint(key) == Tail(key)

\* an entry whose text is not JSON left out of the list
listThrows_skip(st, key) == FALSE

\* the loop body of the list throws on this key: config is a non-empty string
\* and JSON.parse(config) throws
listThrows(st, key) ==
  LET config == redisGet(st, key)
  IN ~Falsy(config) /\ IsString(config) /\ parseThrows(config)

\* an entry pushed whatever the get handed back
listPushes_always(config) == TRUE

\* if (config): the list pushes an entry only for a truthy value
listPushes(config) == ~Falsy(config)

\* the entry the list pushes for a key whose config is truthy
listEntry(st, key) ==
  LET config == redisGet(st, key)
  IN [endpoint |-> listEndpoint(key),
      config |-> IF IsString(config) THEN JSONparse(config) ELSE config,
      url |-> <<"/">> \o key]

\* GET /api/routes: the response; the routes are given as the set of the entries
\* pushed
routesGET(st, transport) ==
  IF transport = "down" \/ \E key \in redisKeys(st) : listThrows(st, key)
  THEN [status |-> 500, success |-> FALSE, error |-> "Failed to fetch routes"]
  ELSE [status |-> 200, success |-> TRUE,
        routes |-> {listEntry(st, key) :
                      key \in {k \in redisKeys(st) : listPushes(redisGet(st, k))}}]

\* a list answers and writes nothing
RoutesGET(transport) ==
  /\ routesGET(store, transport).status \in {200, 500}
  /\ UNCHANGED <<store, req, now, createdBy, routeInput, cleaned, recleaned, wiz>>

\* POST /api/routes (re-run) up to the read of the configuration: 400 without an
\* endpoint, 404 without a stored value, 0 when the handler goes on
rerunCheck(st, endpoint) ==
  IF endpoint = <<>>
  THEN [status |-> 400, success |-> FALSE, error |-> "Endpoint parameter is required"]
  ELSE IF Falsy(redisGet(st, routesKey(endpoint)))
       THEN [status |-> 404, success |-> FALSE, error |-> "Route not found"]
       ELSE [status |-> 0]

\* the locals of a re-run that read its configuration
rerunLocals(st, endpoint) ==
  [pc |-> "rerunExtract", endpoint |-> endpoint, configKey |-> routesKey(endpoint),
   config |-> redisGet(st, routesKey(endpoint))]

\* the rest of the re-run: the store it leaves, the bodies it sent to /api/extract
\* and its response
rerunFinish(st, locals, net, t) ==
  LET extractData == extractPOST(locals.config, t)
  IN IF extractFailed(net, extractData)
     THEN [store |-> st, calls |-> <<locals.config>>,
           resp |-> [status |-> 500, success |-> FALSE, error |-> "Failed to update route"]]
     ELSE [store |-> redisSet(st, locals.configKey, ("updatedAt" :> t) @@ locals.config),
           calls |-> <<locals.config>>,
           resp |-> [status |-> 200, success |-> TRUE,
                     message |-> "Route updated successfully"]
                    @@ Pick(extractData, "data", "data")]

\* the re-run answers 400 or 404
RoutesPOSTReject(endpoint) ==
  /\ rerunCheck(store, endpoint).status # 0
  /\ UNCHANGED <<store, req, now, createdBy, routeInput, cleaned, recleaned, wiz>>

\* the re-run reads the stored configuration
RoutesPOSTGet(p, endpoint) ==
  /\ FreeSlot(p)
  /\ rerunCheck(store, endpoint).status = 0
  /\ req' = [req EXCEPT ![p] = rerunLocals(store, endpoint)]
  /\ UNCHANGED <<store, now, createdBy, routeInput, cleaned, recleaned, wiz>>

\* the re-run calls the extraction and, when it succeeds, stores { ...config, updatedAt }
RoutesPOSTFinish(p, net) ==
  /\ req[p].pc = "rerunExtract"
  /\ store' = rerunFinish(store, req[p], net, now).store
  /\ req' = [req EXCEPT ![p] = Idle]
  /\ UNCHANGED <<now, createdBy, routeInput, cleaned, recleaned, wiz>>

\* time passes
Tick ==
  /\ now < MaxClock
  /\ now' = now + 1
  /\ UNCHANGED <<store, req, createdBy, routeInput, cleaned, recleaned, wiz>>

\* ------------------------------------------------------- the lifecycle specification
Init ==
  /\ store = <<>>
  /\ req = [p \in Procs |-> Idle]
  /\ now = 0
  /\ createdBy = <<>>
  /\ routeInput = <<>>
  /\ cleaned = NoCleaning
  /\ recleaned = NoCleaning
  /\ wiz = WizInit

Next ==
  \/ \E body \in DeployBodies : DeployReject(body)
  \/ \E p \in Procs, body \in DeployBodies : DeployProceed(p, body)
  \/ \E p \in Procs : DeploySet(p)
  \/ \E e \in EndpointInputs, sp \in {"true", "false"} : ResultsGET(e, sp)
  \/ \E body \in PutBodies, net \in NetOutcomes : RoutesPUT(body, net)
  \/ \E e \in EndpointInputs : RoutesDELETE(e)
  \/ \E transport \in TransportOutcomes : RoutesGET(transport)
  \/ \E e \in EndpointInputs : RoutesPOSTReject(e)
  \/ \E p \in Procs, e \in EndpointInputs : RoutesPOSTGet(p, e)
  \/ \E p \in Procs, net \in NetOutcomes : RoutesPOSTFinish(p, net)
  \/ Tick

Spec == Init /\ [][Next]_vars

\* ------------------------------------------------------- the store written from outside
\* what another writer can have left under a key: JSON text of an envelope, text
\* that is not JSON, the empty string
OutsideValues == {JSONstringify(Envelope1), GarbageText, EmptyText}

OutsideKeys == {StoreKey(<<"a", "-", "b">>), StoreKey(<<"a", " ", "B">>)}

\* the store holds what other writers left in it
InitOutside ==
  /\ \E ks \in SUBSET OutsideKeys : store \in [ks -> OutsideValues]
  /\ req = [p \in Procs |-> Idle]
  /\ now = 0
  /\ createdBy = <<>>
  /\ routeInput = <<>>
  /\ cleaned = NoCleaning
  /\ recleaned = NoCleaning
  /\ wiz = WizInit

\* the reads, the list and the /api/routes writes on such a store
NextOutside ==
  \/ \E e \in EndpointInputs, sp \in {"true", "false"} : ResultsGET(e, sp)
  \/ \E transport \in TransportOutcomes : RoutesGET(transport)
  \/ \E body \in PutBodies, net \in NetOutcomes : RoutesPUT(body, net)
  \/ \E e \in EndpointInputs : RoutesDELETE(e)
  \/ \E e \in EndpointInputs : RoutesPOSTReject(e)
  \/ \E p \in Procs, e \in EndpointInputs : RoutesPOSTGet(p, e)
  \/ \E p \in Procs, net \in NetOutcomes : RoutesPOSTFinish(p, net)
  \/ Tick

SpecOutside == InitOutside /\ [][NextOutside]_vars

\* ------------------------------------------------------- the cleaning specification
\* each cleaning is applied to a route input, then to its own result
InitClean ==
  /\ routeInput \in StringsUpTo(MaxLen)
  /\ cleaned = NoCleaning
  /\ recleaned = NoCleaning
  /\ wiz = WizInit
  /\ store = <<>>
  /\ req = [p \in Procs |-> Idle]
  /\ now = 0
  /\ createdBy = <<>>

\* the server cleaning, the handleDeploy cleaning and the button cleaning of routeInput
CleanOnce ==
  /\ ~cleaned.done
  /\ cleaned' = [done |-> TRUE,
                 server |-> cleanRoute(routeInput),
                 client |-> handleDeployCleanRoute(routeInput),
                 button |-> deployButtonRoute(routeInput)]
  /\ UNCHANGED <<routeInput, recleaned, store, req, now, createdBy, wiz>>

\* each cleaning applied to its own result; `wizard` is what POST /deploy makes of
\* the route handleDeploy sends
CleanAgain ==
  /\ cleaned.done
  /\ ~recleaned.done
  /\ recleaned' = [done |-> TRUE,
                   server |-> cleanRoute(cleaned.server),
                   client |-> handleDeployCleanRoute(cleaned.client),
                   button |-> deployButtonRoute(cleaned.button),
                   wizard |-> cleanRoute(cleaned.client)]
  /\ UNCHANGED <<routeInput, cleaned, store, req, now, createdBy, wiz>>

NextClean ==
  \/ CleanOnce
  \/ CleanAgain

SpecClean == InitClean /\ [][NextClean]_vars

\* ------------------------------------------------------- PUT /api/routes, step by step
\* PUT awaits the extraction before its redis.set, so the sets of two PUTs in
\* flight can land in either order
UpdateEndpoints == {<<"a", "-", "b">>, <<"a", " ", "B">>}

UpdateBodies ==
  {[endpoint |-> e, urls |-> u, query |-> q, schema |-> Schema1] :
     e \in UpdateEndpoints,
     u \in {<<"https://a.com">>, <<"https://b.com">>, <<>>},
     q \in {<<"q">>, <<"r">>}}

\* the locals of a PUT whose extraction succeeded
putLocals(body) == [pc |-> "putSet", body |-> body]

\* the store after the redis.set of PUT
putSet(st, locals, t) == redisSet(st, routesKey(locals.body.endpoint), putConfig(locals.body, t))

\* PUT passes the check and the extraction answers success: true
RoutesPUTExtract(p, body) ==
  /\ FreeSlot(p)
  /\ ~putInvalid(body)
  /\ ~extractFailed("ok", extractPOST(putExtractBody(body), now))
  /\ req' = [req EXCEPT ![p] = putLocals(body)]
  /\ UNCHANGED <<store, now, createdBy, routeInput, cleaned, recleaned, wiz>>

\* PUT answers 400, or 500 after a failed extraction: nothing is written
RoutesPUTFail(body, net) ==
  /\ putInvalid(body) \/ extractFailed(net, extractPOST(putExtractBody(body), now))
  /\ UNCHANGED <<store, req, now, createdBy, routeInput, cleaned, recleaned, wiz>>

\* redis.set of the configuration and the success response
RoutesPUTSet(p) ==
  /\ req[p].pc = "putSet"
  /\ store' = putSet(store, req[p], now)
  /\ req' = [req EXCEPT ![p] = Idle]
  /\ UNCHANGED <<now, createdBy, routeInput, cleaned, recleaned, wiz>>

NextUpdate ==
  \/ \E p \in Procs, body \in UpdateBodies : RoutesPUTExtract(p, body)
  \/ \E body \in UpdateBodies, net \in NetOutcomes : RoutesPUTFail(body, net)
  \/ \E p \in Procs : RoutesPUTSet(p)
  \/ \E e \in EndpointInputs, sp \in {"true", "false"} : ResultsGET(e, sp)
  \/ Tick

SpecUpdate == Init /\ [][NextUpdate]_vars

\* ------------------------------------------------------- POST /api/generate-schema
\* what the provider call does: it throws, answers with empty content, with text
\* that is not JSON, or with the JSON text of a schema
ProviderOutcomes == {"throws", "empty", "notJson", "json"}

\* the response of POST /api/generate-schema
generateSchemaPOST(provider) ==
  IF provider = "json"
  THEN [status |-> 200, body |-> [schema |-> Schema1]]
  ELSE [status |-> 500, body |-> [error |-> "Failed to generate schema"]]

\* ------------------------------------------------------- the wizard (builder page)
\* handleQuerySubmit: the step moves to 'schema' and the fetch of
\* /api/generate-schema starts
HandleQuerySubmit ==
  /\ wiz.step = "query"
  /\ ~wiz.loading
  /\ wiz' = [wiz EXCEPT !.loading = TRUE, !.step = "schema", !.schemaFetch = "inflight"]
  /\ UNCHANGED <<store, req, now, createdBy, routeInput, cleaned, recleaned>>

\* JSON.stringify(data.schema, null, 2) of the parsed response body
schemaStrOf(data) ==
  IF "schema" \in DOMAIN data THEN JSONstringify(data.schema) ELSE UNDEFINED

\* the wizard after the fetch of handleQuerySubmit settled: .then on a response of
\* any status, .catch when the fetch threw, .finally
querySubmitSettled(w, net, response) ==
  IF net = "down"
  THEN [w EXCEPT !.error = "Failed to generate schema. Please try again.",
                 !.loading = FALSE, !.schemaFetch = "idle"]
  ELSE [w EXCEPT !.schemaStr = schemaStrOf(response.body),
                 !.loading = FALSE, !.schemaFetch = "idle"]

SchemaFetchSettles(net, provider) ==
  /\ wiz.schemaFetch = "inflight"
  /\ wiz' = querySubmitSettled(wiz, net, generateSchemaPOST(provider))
  /\ UNCHANGED <<store, req, now, createdBy, routeInput, cleaned, recleaned>>

\* setStep('sources') and the two effects on step: handleNewSearch when there
\* are no results yet, handleSearch always
enterSources(w) ==
  [w EXCEPT !.step = "sources",
            !.loading = IF Len(w.searchResults) = 0 THEN TRUE ELSE w.loading,
            !.error = IF Len(w.searchResults) = 0 THEN "" ELSE w.error,
            !.handleNewSearch = IF Len(w.searchResults) = 0 THEN "inflight"
                                ELSE w.handleNewSearch,
            !.searchResults = <<>>,
            !.isTransitioning = TRUE,
            !.handleSearch = "inflight"]

\* !schemaStr
schemaStrFalsy(schemaStr) == schemaStr = EmptyText \/ schemaStr = UNDEFINED

\* handleSchemaSubmit on a schema text that parses
HandleSchemaSubmit ==
  /\ wiz.step = "schema"
  /\ ~schemaStrFalsy(wiz.schemaStr)
  /\ ~wiz.loading
  /\ ~parseThrows(wiz.schemaStr)
  /\ wiz' = enterSources([wiz EXCEPT !.error = ""])
  /\ UNCHANGED <<store, req, now, createdBy, routeInput, cleaned, recleaned>>

\* what /api/search answers: two searches for one query can rank differently
SearchOutcomes ==
  {[ok |-> FALSE],
   [ok |-> TRUE, links |-> <<>>],
   [ok |-> TRUE, links |-> <<"https://a.com", "https://b.com">>],
   [ok |-> TRUE, links |-> <<"https://b.com", "https://a.com">>]}

\* data.organic.map(...): the first result is selected
toSearchResults(links) ==
  [i \in 1..Len(links) |-> [url |-> links[i], selected |-> i = 1]]

\* the results after a search answered
searchSettled(w, outcome) ==
  IF outcome.ok /\ Len(outcome.links) > 0 THEN toSearchResults(outcome.links)
  ELSE w.searchResults

\* the fetch of handleSearch settles
HandleSearchSettles(outcome) ==
  /\ wiz.handleSearch = "inflight"
  /\ wiz' = [wiz EXCEPT !.searchResults = searchSettled(wiz, outcome),
                        !.isTransitioning = FALSE, !.handleSearch = "idle"]
  /\ UNCHANGED <<store, req, now, createdBy, routeInput, cleaned, recleaned>>

\* the fetch of handleNewSearch settles
HandleNewSearchSettles(outcome) ==
  /\ wiz.handleNewSearch = "inflight"
  /\ wiz' = [wiz EXCEPT !.searchResults = searchSettled(wiz, outcome),
                        !.loading = FALSE, !.handleNewSearch = "idle"]
  /\ UNCHANGED <<store, req, now, createdBy, routeInput, cleaned, recleaned>>

\* a click on a search result; the overlay shown while isTransitioning takes
\* every click
ToggleResult(index) ==
  /\ wiz.step = "sources"
  /\ ~wiz.isTransitioning
  /\ index \in 1..Len(wiz.searchResults)
  /\ wiz' = [wiz EXCEPT !.searchResults[index].selected = ~@]
  /\ UNCHANGED <<store, req, now, createdBy, routeInput, cleaned, recleaned>>

CustomUrls == {"", "https://c.com"}

\* typing into the custom URL field of the sources step
SetCustomUrl(url) ==
  /\ wiz.step = "sources"
  /\ ~wiz.isTransitioning
  /\ wiz.customUrl # url
  /\ wiz' = [wiz EXCEPT !.customUrl = url]
  /\ UNCHANGED <<store, req, now, createdBy, routeInput, cleaned, recleaned>>

RECURSIVE selectedOf(_)
\* searchResults.filter(r => r.selected).map(r => r.url)
selectedOf(results) ==
  IF results = <<>> THEN <<>>
  ELSE (IF Head(results).selected THEN <<Head(results).url>> ELSE <<>>)
       \o selectedOf(Tail(results))

\* [...selected urls, ...(customUrl ? [customUrl] : [])], as handleExtractData and
\* handleDeploy both compute it from the state at the time they run
selectedUrls(w) ==
  selectedOf(w.searchResults) \o (IF w.customUrl # "" THEN <<w.customUrl>> ELSE <<>>)

\* the Continue button of the sources step: handleSourcesSubmit, which calls
\* handleExtractData up to its await of the extraction
HandleSourcesSubmit ==
  /\ wiz.step = "sources"
  /\ ~wiz.isTransitioning
  /\ selectedOf(wiz.searchResults) # <<>>
  /\ wiz.extracting = NotExtracting
  /\ ~parseThrows(wiz.schemaStr)
  /\ wiz' = [wiz EXCEPT !.loading = TRUE, !.error = "", !.isTransitioning = TRUE,
                        !.extracting = [pc |-> "inflight", urls |-> selectedUrls(wiz)]]
  /\ UNCHANGED <<store, req, now, createdBy, routeInput, cleaned, recleaned>>

\* what the extraction call does: it answers success: true, success: false, or throws
ExtractOutcomes == {"success", "failure", "throws"}

\* the extraction result is taken as a success
scrapeSucceeded_always(outcome) == TRUE

\* the call did not throw and not (!scrapeResult.success)
scrapeSucceeded(outcome) == outcome = "success"

\* handleExtractData after its await: the data (here: the urls it was extracted
\* from) and the step 'extract' on success, an error otherwise; finally
extractSettled(w, outcome) ==
  IF scrapeSucceeded(outcome)
  THEN [w EXCEPT !.extractedData = [extractedFrom |-> w.extracting.urls],
                 !.step = "extract",
                 !.loading = FALSE, !.isTransitioning = FALSE,
                 !.extracting = NotExtracting]
  ELSE [w EXCEPT !.error = "Extraction failed",
                 !.loading = FALSE, !.isTransitioning = FALSE,
                 !.extracting = NotExtracting]

ExtractSettles(outcome) ==
  /\ wiz.extracting # NotExtracting
  /\ wiz' = extractSettled(wiz, outcome)
  /\ UNCHANGED <<store, req, now, createdBy, routeInput, cleaned, recleaned>>

\* the 'Deploy API' button of the extract step
DeployButton ==
  /\ wiz.step = "extract"
  /\ wiz.extractedData # NULL
  /\ ~wiz.loading
  /\ ~wiz.isTransitioning
  /\ wiz' = [wiz EXCEPT !.step = "deploy"]
  /\ UNCHANGED <<store, req, now, createdBy, routeInput, cleaned, recleaned>>

\* metadata.sources of the request body handleDeploy builds
handleDeploySources(w) == selectedUrls(w)

\* handleDeploy: the request is sent and the server accepts it
HandleDeploy ==
  /\ wiz.step = "deploy"
  /\ wiz.extractedData # NULL
  /\ ~wiz.loading
  /\ ~wiz.isTransitioning
  /\ ~wiz.isDeployed
  /\ wiz' = [wiz EXCEPT !.isDeployed = TRUE, !.sentSources = handleDeploySources(wiz),
                        !.error = ""]
  /\ UNCHANGED <<store, req, now, createdBy, routeInput, cleaned, recleaned>>

\* the Back button of the extract step: the sources step and its effects again
BackToSources ==
  /\ wiz.step = "extract"
  /\ ~wiz.isTransitioning
  /\ wiz' = enterSources(wiz)
  /\ UNCHANGED <<store, req, now, createdBy, routeInput, cleaned, recleaned>>

NextWizard ==
  \/ HandleQuerySubmit
  \/ \E net \in NetOutcomes, provider \in ProviderOutcomes : SchemaFetchSettles(net, provider)
  \/ HandleSchemaSubmit
  \/ \E outcome \in SearchOutcomes : HandleSearchSettles(outcome)
  \/ \E outcome \in SearchOutcomes : HandleNewSearchSettles(outcome)
  \/ \E index \in 1..2 : ToggleResult(index)
  \/ \E url \in CustomUrls : SetCustomUrl(url)
  \/ HandleSourcesSubmit
  \/ \E outcome \in ExtractOutcomes : ExtractSettles(outcome)
  \/ DeployButton
  \/ HandleDeploy
  \/ BackToSources

SpecWizard == Init /\ [][NextWizard]_vars

\* ------------------------------------------------------- route management in the page
\* a request sent without a body
NoBody == [nobody |-> TRUE]

\* the wizard's query and the search query proposed from it
WizQuery == <<"q">>

\* the body handleUpdateRoute sends with its PUT
handleUpdateRouteBody(w, t) ==
  [urls |-> selectedOf(w.searchResults), schema |-> w.schemaStr, prompt |-> WizQuery,
   searchQuery |-> WizQuery, updatedAt |-> t]

\* handleDeleteRoute sends its DELETE without a body
handleDeleteRouteBody == NoBody

\* PUT /api/routes on a request body: the destructuring of req.json()
routesPUTRequest(st, body, net, t) ==
  IF body = NoBody
  THEN [store |-> st, calls |-> <<>>,
        resp |-> [status |-> 500, success |-> FALSE, error |-> "Failed to deploy route"]]
  ELSE routesPUT(st, body, net, t)

\* DELETE /api/routes on a request body: req.json() throws without one
routesDELETERequest(st, body) ==
  IF body = NoBody
  THEN [store |-> st,
        resp |-> [status |-> 500, success |-> FALSE, error |-> "Failed to delete route"]]
  ELSE routesDELETE(st, IF "endpoint" \in DOMAIN body THEN body.endpoint ELSE <<>>)

\* checkRouteExists: some entry of the list has the field route equal to the
\* route asked for; false when the list fails
checkRouteExists(st, route, transport) ==
  LET data == routesGET(st, transport)
  IN IF data.success /\ "routes" \in DOMAIN data
     THEN \E r \in data.routes : "route" \in DOMAIN r /\ r.route = route
     ELSE FALSE

\* ------------------------------------------------------- GET /api/routes, step by step
\* the list awaits redis.keys and then one redis.get per key, so a PUT or a
\* DELETE can land between two of its reads

\* the locals of a list after redis.keys: the keys, those still to get, the routes
listLocals(st) == [pc |-> "listLoop", keys |-> redisKeys(st), todo |-> redisKeys(st), routes |-> {}]

\* the locals after the loop body ran for key
listStep(st, locals, key) ==
  LET config == redisGet(st, key)
  IN [locals EXCEPT !.todo = @ \ {key},
                    !.routes = IF listPushes(config) THEN @ \cup {listEntry(st, key)} ELSE @]

\* the response after the loop
listResponse(locals) == [status |-> 200, success |-> TRUE, routes |-> locals.routes]

\* the PUTs that land while a list runs: one per endpoint
ListBodies ==
  {[endpoint |-> e, urls |-> <<"https://a.com">>, query |-> <<"q">>, schema |-> Schema1] :
     e \in UpdateEndpoints}

\* the keys the store can hold here
ListKeySet == {StoreKey(e) : e \in UpdateEndpoints}

\* redis.keys answers, or throws and the list answers 500
ListKeys(p, transport) ==
  /\ FreeSlot(p)
  /\ req' = [req EXCEPT ![p] = IF transport = "down" THEN Idle ELSE listLocals(store)]
  /\ UNCHANGED <<store, now, createdBy, routeInput, cleaned, recleaned, wiz>>

\* one turn of the loop: the get of a key and the push of its entry; a get or a
\* JSON.parse that throws ends the list with 500
ListGet(p, key, transport) ==
  /\ req[p].pc = "listLoop"
  /\ key \in req[p].todo
  /\ req' = [req EXCEPT ![p] = IF transport = "down" \/ listThrows(store, key)
                               THEN Idle
                               ELSE listStep(store, req[p], key)]
  /\ UNCHANGED <<store, now, createdBy, routeInput, cleaned, recleaned, wiz>>

\* the loop is over and the list answers success
ListReturn(p) ==
  /\ req[p].pc = "listLoop"
  /\ req[p].todo = {}
  /\ listResponse(req[p]).success
  /\ req' = [req EXCEPT ![p] = Idle]
  /\ UNCHANGED <<store, now, createdBy, routeInput, cleaned, recleaned, wiz>>

NextList ==
  \/ \E p \in Procs, transport \in TransportOutcomes : ListKeys(p, transport)
  \/ \E p \in Procs, key \in ListKeySet, transport \in TransportOutcomes :
       ListGet(p, key, transport)
  \/ \E p \in Procs : ListReturn(p)
  \/ \E body \in ListBodies, net \in NetOutcomes : RoutesPUT(body, net)
  \/ \E e \in UpdateEndpoints : RoutesDELETE(e)
  \/ Tick

SpecList == Init /\ [][NextList]_vars


\* ======================================================= claims
Pending(p) == req[p].pc = "deploySet"

\* the normalized store key of a raw route
NormalizedKey(route) == StoreKey(cleanRoute(route))

\* C1: a create on a route whose normalized key holds a value answers 409
\* Conflict and does not go on to the set, so the stored envelope stays as it is.
C1_ConflictOnExistingKey ==
  \A body \in DeployBodies :
    (deployRequestValid(body) /\ NormalizedKey(body.route) \in DOMAIN store)
      => deployCheck(store, body) =
           [status |-> 409, success |-> FALSE, error |-> "Route already exists"]

C1_Witness ==
  \E body \in DeployBodies :
    /\ deployRequestValid(body)
    /\ NormalizedKey(body.route) \in DOMAIN store
    /\ JSONparse(store[NormalizedKey(body.route)]) # deployRequestData(body)
    /\ deployCheck(store, body).status = 409

\* C2: in every interleaving of concurrent deploys whose routes normalize to the
\* same key, no deploy's set lands on a key on which a create has already
\* succeeded: at most one of them succeeds and none replaces the other's envelope.
C2_DeployNeverOverwrites ==
  [][\A p \in Procs :
       (Pending(p) /\ req'[p].pc = "idle")
         => NormalizedKey(req[p].route) \notin DOMAIN createdBy]_vars

\* C3: a create on a key that does not exist succeeds, and a read of that key
\* right after it answers 200 with the data, lastUpdated and sources deployed.
C3_ReadAfterCreate ==
  \A p \in Procs :
    Pending(p) =>
      LET envelope == req[p].data
          resp == deployResponse(req[p])
          read == resultsGET(deploySet(store, req[p]), resp.route, "false")
      IN /\ resp.status = 200
         /\ read.status = 200
         /\ DOMAIN read = {"status", "success", "data", "lastUpdated", "sources"}
         /\ read.data = envelope.data
         /\ read.lastUpdated = envelope.metadata.lastUpdated
         /\ read.sources = envelope.metadata.sources

\* C4: two different raw routes with the same normalized key are one route: once
\* a create with one has succeeded, a create with the other reads the same store
\* key and answers 409 Conflict.
C4_SameKeyCollides ==
  \A body \in DeployBodies :
    (/\ deployRequestValid(body)
     /\ NormalizedKey(body.route) \in DOMAIN createdBy
     /\ createdBy[NormalizedKey(body.route)] # body.route)
      => /\ deployStoreKey(body.route) = deployStoreKey(createdBy[NormalizedKey(body.route)])
         /\ deployStoreKey(body.route) \in DOMAIN store
         /\ deployCheck(store, body).status = 409

C4_Witness ==
  \E body \in DeployBodies :
    /\ deployRequestValid(body)
    /\ NormalizedKey(body.route) \in DOMAIN createdBy
    /\ createdBy[NormalizedKey(body.route)] # body.route
    /\ deployCheck(store, body).status = 409

\* C5: after a successful create with raw route r, Read, Re-run, Update and
\* Delete invoked with the same r address the store key the create wrote.
C5_AllOperationsNormalize ==
  \A k \in DOMAIN createdBy :
    /\ resultsKey(createdBy[k]) = k
    /\ routesKey(createdBy[k]) = k

\* (-[a-z0-9_]+)*$
RECURSIVE MatchesSegments(_)
MatchesSegments(s) ==
  \/ s = <<>>
  \/ /\ Head(s) = "-"
     /\ DropWhile(Tail(s), Alnum \cup {"_"}) # Tail(s)
     /\ MatchesSegments(DropWhile(Tail(s), Alnum \cup {"_"}))

\* ^[a-z0-9]+(-[a-z0-9_]+)*$
MatchesRouteKey(s) == DropWhile(s, Alnum) # s /\ MatchesSegments(DropWhile(s, Alnum))

\* C6: every route key under which a value is stored matches
\* ^[a-z0-9]+(-[a-z0-9_]+)*$.
C6_StoredKeysWellFormed ==
  \A k \in DOMAIN store : MatchesRouteKey(Tail(k))

\* C7: each of the three route cleanings is idempotent: applied to its own
\* result it gives that result again.
C7_CleaningIdempotent ==
  recleaned.done =>
    /\ recleaned.server = cleaned.server
    /\ recleaned.client = cleaned.client
    /\ recleaned.button = cleaned.button

C7_Witness ==
  /\ recleaned.done
  /\ cleaned.server # routeInput
  /\ cleaned.client # routeInput
  /\ cleaned.button # routeInput
  /\ cleaned.server # <<>>

\* the algorithm of the specification: lowercase; strip every character outside
\* [a-z0-9\s_-]; whitespace runs to one hyphen; hyphen runs to one hyphen; trim
\* leading and trailing hyphens
normalize(input) ==
  StripHyphenRuns(RunsToHyphen(RunsToHyphen(
    RemoveOutside(toLowerCase(input), RouteCharsOrSpace), Whitespace), Hyphen))

\* the input, lowercased, has no character outside [a-z0-9\s_-]
OnlyRouteCharsOrSpace(input) ==
  \A i \in 1..Len(input) : LowerChar(input[i]) \in RouteCharsOrSpace

\* C8 as stated: the cleaning POST /deploy applies gives, for every input, the
\* result of the specified algorithm.
C8_ServerCleaningIsNormalize ==
  cleaned.done => cleaned.server = normalize(routeInput)

\* C8 amended: the handleDeploy cleaning followed by the POST /deploy cleaning
\* gives the result of the specified algorithm for every input; the POST /deploy
\* cleaning alone gives it for every input with no character outside
\* [a-z0-9\s_-] after lowercasing.
C8_WizardCleaningIsNormalize ==
  recleaned.done =>
    /\ recleaned.wizard = normalize(routeInput)
    /\ OnlyRouteCharsOrSpace(routeInput) => cleaned.server = normalize(routeInput)

C8_Witness ==
  /\ recleaned.done
  /\ recleaned.wizard # <<>>
  /\ cleaned.server # recleaned.wizard
  /\ cleaned.client # routeInput

\* C9: no value is ever written under the store key with an empty route part.
C9_NoEmptyRouteKey == StoreKey(<<>>) \notin DOMAIN store

\* C10: on a successful create the envelope is stored under the normalized key,
\* the response's route is that key and its url the results path of that key,
\* and a read of the returned route finds the stored envelope.
C10_CreateStoresUnderReturnedRoute ==
  \A p \in Procs :
    Pending(p) =>
      LET after == deploySet(store, req[p])
          resp == deployResponse(req[p])
      IN /\ resp.status = 200
         /\ resp.route = cleanRoute(req[p].route)
         /\ StoreKey(resp.route) \in DOMAIN after
         /\ JSONparse(after[StoreKey(resp.route)]) = req[p].data
         /\ resp.url = <<"http://localhost:3000", "/">> \o resultsKey(resp.route)
         /\ resultsGET(after, resp.route, "true") =
              [status |-> 200, success |-> TRUE, data |-> req[p].data]

\* a stored value carries a schema: at the top level, or in its metadata
HasSchema(v) ==
  "schema" \in DOMAIN v \/ ("metadata" \in DOMAIN v /\ "schema" \in DOMAIN v.metadata)

\* C11: a read of a stored value without schema=true answers with nothing but the
\* value's data, its metadata's lastUpdated and sources, and has no schema
\* field; a read with schema=true answers with the whole stored value, schema
\* included.
C11_ReadShapes ==
  \A e \in EndpointInputs :
    (e # <<>> /\ resultsKey(e) \in DOMAIN store) =>
      LET plain == resultsGET(store, e, "false")
          full == resultsGET(store, e, "true")
          stored == JSONparse(store[resultsKey(e)])
      IN /\ plain.status = 200
         /\ DOMAIN plain \subseteq {"status", "success", "data", "lastUpdated", "sources"}
         /\ IF "data" \in DOMAIN stored
            THEN "data" \in DOMAIN plain /\ plain.data = stored.data
            ELSE "data" \notin DOMAIN plain
         /\ "lastUpdated" \in DOMAIN plain => plain.lastUpdated = stored.metadata.lastUpdated
         /\ "sources" \in DOMAIN plain => plain.sources = stored.metadata.sources
         /\ full = [status |-> 200, success |-> TRUE, data |-> stored]
         /\ HasSchema(full.data)

C11_Witness ==
  \E e \in EndpointInputs :
    /\ e # <<>>
    /\ resultsKey(e) \in DOMAIN store
    /\ {"data", "lastUpdated", "sources"} \subseteq DOMAIN resultsGET(store, e, "false")
    /\ HasSchema(resultsGET(store, e, "true").data)

\* C12: a read of a key that holds no value answers 404, and a read of a key
\* whose stored text cannot be parsed answers 500 with the fixed message
\* "Invalid data format in storage", never 404.
C12_ReadAbsentOrUnparseable ==
  \A e \in EndpointInputs, sp \in {"true", "false"} :
    e # <<>> =>
      /\ resultsKey(e) \notin DOMAIN store =>
           resultsGET(store, e, sp) =
             [status |-> 404, success |-> FALSE,
              error |-> "No results found for this endpoint"]
      /\ (resultsKey(e) \in DOMAIN store /\ parseThrows(store[resultsKey(e)])) =>
           resultsGET(store, e, sp) =
             [status |-> 500, success |-> FALSE,
              error |-> "Invalid data format in storage"]

\* C13: a delete of an endpoint answers 200 whether or not its key holds a value,
\* a second delete of the same endpoint answers 200 again and changes nothing,
\* and a read of the endpoint after either delete answers 404.
C13_DeleteIdempotent ==
  \A e \in EndpointInputs, sp \in {"true", "false"} :
    e # <<>> =>
      LET once == routesDELETE(store, e)
          twice == routesDELETE(once.store, e)
          deleted == [status |-> 200, success |-> TRUE,
                      message |-> "Route deleted successfully"]
      IN /\ once.resp = deleted
         /\ twice.resp = deleted
         /\ twice.store = once.store
         /\ routesKey(e) \notin DOMAIN once.store
         /\ resultsGET(once.store, e, sp).status = 404
         /\ resultsGET(twice.store, e, sp).status = 404

\* a delete of an endpoint whose key holds a value, and one whose key holds none
C13_Witness ==
  \E e1, e2 \in EndpointInputs :
    /\ e1 # <<>> /\ e2 # <<>>
    /\ resultsGET(store, e1, "false").status = 200
    /\ routesDELETE(store, e1).store # store
    /\ routesKey(e2) \notin DOMAIN store
    /\ routesDELETE(store, e2).resp.status = 200

\* a PUT body with urls, query or schema left out (or an empty query)
PutFieldMissing(body) ==
  \/ {"urls", "query", "schema"} \ DOMAIN body # {}
  \/ body.query = <<>>

\* C14: a PUT with urls, query or schema missing answers 400, leaves the store as
\* it is and sends nothing to /api/extract; a re-run and a delete without an
\* endpoint answer 400 and leave the store as it is; a deploy whose body fails the
\* request schema answers 400 without going on to the store.
C14_ValidationBeforeSideEffects ==
  /\ \A body \in PutBodies, net \in NetOutcomes :
       PutFieldMissing(body) =>
         routesPUT(store, body, net, now) =
           [store |-> store, calls |-> <<>>,
            resp |-> [status |-> 400, success |-> FALSE,
                      error |-> "Missing required parameters: endpoint, urls, query, and schema are required"]]
  /\ rerunCheck(store, <<>>) =
       [status |-> 400, success |-> FALSE, error |-> "Endpoint parameter is required"]
  /\ routesDELETE(store, <<>>) =
       [store |-> store,
        resp |-> [status |-> 400, success |-> FALSE,
                  error |-> "Endpoint parameter is required"]]
  /\ \A body \in DeployBodies :
       (body.key = <<>> \/ body.route = <<>> \/ "metadata" \notin DOMAIN body.data) =>
         deployCheck(store, body) =
           [status |-> 400, success |-> FALSE, error |-> "Validation error"]

\* a store that holds routes, on which a PUT without urls is rejected
C14_Witness ==
  /\ StoreKey(<<"a", "-", "b">>) \in DOMAIN store
  /\ \E body \in PutBodies :
       /\ "urls" \notin DOMAIN body
       /\ routesPUT(store, body, "ok", now).resp.status = 400

\* the extraction does not deliver: the fetch throws, or /api/extract answers
\* success: false
GatewayFails(net, extractBody, t) == net = "down" \/ ~extractPOST(extractBody, t).success

\* the answer of a failed operation
Failed(resp) == resp.status >= 400 /\ ~resp.success

\* C15: when the extraction fails during a PUT or a re-run, the operation answers
\* with a failure and the store is what it was before the call.
C15_GatewayFailureLeavesStore ==
  /\ \A body \in PutBodies, net \in NetOutcomes :
       (~PutFieldMissing(body) /\ body.endpoint # <<>>
          /\ GatewayFails(net, putExtractBody(body), now)) =>
         LET r == routesPUT(store, body, net, now)
         IN r.store = store /\ Failed(r.resp)
  /\ \A p \in Procs, net \in NetOutcomes :
       (req[p].pc = "rerunExtract" /\ GatewayFails(net, req[p].config, now)) =>
         LET r == rerunFinish(store, req[p], net, now)
         IN r.store = store /\ Failed(r.resp)

\* a re-run in flight whose extraction answers success: false, and a PUT on a
\* stored route whose extraction answers success: false
C15_Witness ==
  /\ \E p \in Procs :
       /\ req[p].pc = "rerunExtract"
       /\ req[p].configKey \in DOMAIN store
       /\ ~extractPOST(req[p].config, now).success
  /\ \E body \in PutBodies :
       /\ ~PutFieldMissing(body) /\ body.endpoint # <<>>
       /\ routesKey(body.endpoint) \in DOMAIN store
       /\ ~extractPOST(putExtractBody(body), now).success

\* C16: when the extraction succeeds, a PUT stores under the key the envelope with
\* the newly extracted data and a refreshed metadata.lastUpdated, with urls,
\* schema and query as given, and a read of the key after it answers with the
\* data the extraction produced.
C16_UpdateStoresExtractedData ==
  \A body \in PutBodies :
    (~PutFieldMissing(body) /\ body.endpoint # <<>>
       /\ ~GatewayFails("ok", putExtractBody(body), now)) =>
      LET r == routesPUT(store, body, "ok", now)
          stored == JSONparse(r.store[routesKey(body.endpoint)])
          read == resultsGET(r.store, body.endpoint, "false")
      IN /\ r.resp.status = 200
         /\ stored.urls = body.urls
         /\ stored.query = body.query
         /\ stored.schema = body.schema
         /\ "data" \in DOMAIN stored
         /\ stored.data = r.resp.data
         /\ "metadata" \in DOMAIN stored
         /\ stored.metadata.lastUpdated = now
         /\ "data" \in DOMAIN read
         /\ read.data = r.resp.data

\* C17: when /api/extract answers success: false during a PUT or a re-run, the
\* error the caller gets is the error text of that answer, as it is.
C17_GatewayMessageVerbatim ==
  /\ \A body \in PutBodies :
       (~PutFieldMissing(body) /\ body.endpoint # <<>>
          /\ ~extractPOST(putExtractBody(body), now).success) =>
         routesPUT(store, body, "ok", now).resp.error =
           extractPOST(putExtractBody(body), now).error
  /\ \A p \in Procs :
       (req[p].pc = "rerunExtract" /\ ~extractPOST(req[p].config, now).success) =>
         rerunFinish(store, req[p], "ok", now).resp.error =
           extractPOST(req[p].config, now).error

\* C18: as long as the store answers, the list answers 200 with the entries of
\* every key whose stored text can be parsed, leaving out an entry that cannot;
\* only when the store does not answer does the whole list fail.
C18_ListSkipsCorruptEntry ==
  /\ LET r == routesGET(store, "ok")
     IN /\ r.status = 200
        /\ r.success
        /\ {x.endpoint : x \in r.routes} =
             {listEndpoint(k) : k \in {j \in DOMAIN store : ~parseThrows(store[j])}}
  /\ routesGET(store, "down").status = 500

\* C19: a re-run of a stored route sends the stored urls, query and schema to
\* /api/extract and, when the extraction succeeds, answers 200 and stores the
\* newly extracted data under the key, for a route stored by a deploy as well
\* as for one stored by a PUT.
C19_RerunRefreshesStoredData ==
  \A p \in Procs :
    req[p].pc = "rerunExtract" =>
      LET r == rerunFinish(store, req[p], "ok", now)
          stored == JSONparse(r.store[req[p].configKey])
      IN /\ Len(r.calls) = 1
         /\ {"urls", "query", "schema"} \subseteq DOMAIN r.calls[1]
         /\ r.resp.status = 200
         /\ "data" \in DOMAIN stored
         /\ stored.data = r.resp.data

\* C20: a key comes to hold a value only by the set of a create (a deploy that
\* found no value under it); a PUT and a re-run only change keys that hold a
\* value; a key loses its value only by a delete, and a create on it then passes
\* the existence check again.
C20_KeyLifecycle ==
  [][\A k \in DOMAIN store \cup DOMAIN store' :
       /\ (k \notin DOMAIN store /\ k \in DOMAIN store') =>
            \E p \in Procs :
              /\ Pending(p)
              /\ req'[p].pc = "idle"
              /\ deployStoreKey(req[p].route) = k
       /\ (k \in DOMAIN store /\ k \notin DOMAIN store') =>
            /\ \E e \in EndpointInputs :
                 /\ routesKey(e) = k
                 /\ store' = routesDELETE(store, e).store
            /\ \A body \in DeployBodies :
                 (deployRequestValid(body) /\ deployStoreKey(body.route) = k) =>
                   deployCheck(store', body).status = 0
    ]_vars

\* the configuration a PUT with this body writes at time t, whole
WholeConfig(body, t) ==
  [urls |-> body.urls, query |-> body.query, schema |-> body.schema,
   createdAt |-> t, updatedAt |-> t]

\* C21: with two PUTs in flight on one key, each redis.set leaves under the key
\* exactly the configuration of the PUT that made it, so after both the key
\* holds the value of the set that came last: the key is never absent after a
\* set and never holds fields of two updates mixed.
C21_LastSetWins ==
  [][\A p \in Procs :
       (req[p].pc = "putSet" /\ req'[p].pc = "idle") =>
         LET key == routesKey(req[p].body.endpoint)
         IN /\ key \in DOMAIN store'
            /\ JSONparse(store'[key]) = WholeConfig(req[p].body, now)
            /\ \A k \in DOMAIN store' \ {key} :
                 \E body \in UpdateBodies, t \in 0..now :
                   JSONparse(store'[k]) = WholeConfig(body, t)
    ]_vars

\* two PUTs with different urls and queries in flight on a key that holds a
\* value already
C21_Witness ==
  \E p, q \in Procs :
    /\ p # q
    /\ req[p].pc = "putSet" /\ req[q].pc = "putSet"
    /\ req[p].body.endpoint = req[q].body.endpoint
    /\ req[p].body.urls # req[q].body.urls
    /\ req[p].body.query # req[q].body.query
    /\ routesKey(req[p].body.endpoint) \in DOMAIN store

\* C22: a re-run whose extraction succeeds leaves urls, query, schema and
\* createdAt of the stored value as they were and sets its updatedAt to the
\* time of the re-run; a re-run whose extraction fails, a read and a list leave
\* the store as it is.
C22_RerunKeepsConfiguration ==
  [][\A p \in Procs :
          (req[p].pc = "rerunExtract" /\ req'[p].pc = "idle") =>
            IF ~extractPOST(req[p].config, now).success \/ store' = store
            THEN store' = store
            ELSE /\ req[p].configKey \in DOMAIN store
                 /\ LET old == JSONparse(store[req[p].configKey])
                        new == JSONparse(store'[req[p].configKey])
                    IN /\ {"urls", "query", "schema", "createdAt"} \subseteq DOMAIN old
                       /\ new.urls = old.urls
                       /\ new.query = old.query
                       /\ new.schema = old.schema
                       /\ new.createdAt = old.createdAt
                       /\ new.updatedAt = now
    ]_vars

\* the locals of a re-run that read this configuration
RerunOf(endpoint, config) ==
  [pc |-> "rerunExtract", endpoint |-> endpoint, configKey |-> routesKey(endpoint),
   config |-> config]

\* C23: an extraction answer with success: false is a failure wherever it is
\* consumed: handleExtractData sets an error, leaves the step at 'sources' and
\* leaves extractedData as it was; PUT /api/routes and the re-run answer with a
\* non-success response.
C23_SuccessFalseIsFailure ==
  /\ wiz.extracting # NotExtracting =>
       LET w == extractSettled(wiz, "failure")
       IN /\ w.error # ""
          /\ w.step = "sources"
          /\ w.extractedData = wiz.extractedData
  /\ \A body \in PutBodies :
       (~PutFieldMissing(body) /\ body.endpoint # <<>>
          /\ ~extractPOST(putExtractBody(body), now).success) =>
         Failed(routesPUT(store, body, "ok", now).resp)
  /\ \A config \in {Envelope1, putConfig([urls |-> <<>>, query |-> <<"q">>,
                                          schema |-> Schema1], now)} :
       ~extractPOST(config, now).success
         /\ Failed(rerunFinish(store, RerunOf(<<"a", "-", "b">>, config), "ok", now).resp)

\* an extraction in flight in the wizard while data of an earlier extraction is held
C23_Witness ==
  /\ wiz.extracting # NotExtracting
  /\ wiz.extractedData # NULL
  /\ wiz.extracting.urls # wiz.extractedData.extractedFrom

\* C24: when the schema generation fails (the provider call throws, answers
\* with empty content or with text that is not JSON), POST /api/generate-schema
\* answers 500 'Failed to generate schema', and the wizard then shows an error
\* and holds no schema text to continue with.
C24_SchemaFailureSurfaces ==
  \A provider \in ProviderOutcomes \ {"json"} :
    /\ generateSchemaPOST(provider) =
         [status |-> 500, body |-> [error |-> "Failed to generate schema"]]
    /\ wiz.schemaFetch = "inflight" =>
         LET w == querySubmitSettled(wiz, "ok", generateSchemaPOST(provider))
         IN /\ w.error # ""
            /\ schemaStrFalsy(w.schemaStr)

\* C25: for every route input, the path the wizard shows after a deploy,
\* /api/results/<route as handleDeploy cleaned it>, is the path of the key under
\* which POST /deploy stored the envelope, api/results/<that route as the server
\* cleaned it>.
C25_ShownPathIsStoredPath ==
  recleaned.done =>
    <<"/">> \o StoreKey(cleaned.client) = <<"/">> \o deployStoreKey(cleaned.client)

\* C26: the metadata.sources of the deploy request the wizard sent are the urls
\* that were passed to the extraction whose data is deployed.
C26_SourcesAreExtractedUrls ==
  wiz.isDeployed => wiz.sentSources = wiz.extractedData.extractedFrom

\* C27: with a schema and a selected source in the wizard, the PUT that
\* handleUpdateRoute sends is not rejected as a validation error and the DELETE
\* that handleDeleteRoute sends neither is, nor fails on the read of its body.
C27_UIRequestsMeetContract ==
  (~schemaStrFalsy(wiz.schemaStr) /\ selectedOf(wiz.searchResults) # <<>>) =>
    /\ {"endpoint", "urls", "query", "schema"} \subseteq
         DOMAIN handleUpdateRouteBody(wiz, now)
    /\ routesPUTRequest(store, handleUpdateRouteBody(wiz, now), "ok", now).resp.status # 400
    /\ routesDELETERequest(store, handleDeleteRouteBody).resp.status = 200

\* C28: checkRouteExists(route) is true exactly when the list of routes has an
\* entry for that route.
C28_CheckRouteExistsMatchesList ==
  \A key \in redisKeys(store) :
    checkRouteExists(store, listEndpoint(key), "ok")
      <=> (\E r \in routesGET(store, "ok").routes : r.endpoint = listEndpoint(key))

\* C29: the createdAt of a stored configuration stays what it is for as long as
\* its key exists: no step, a successful PUT on the key included, changes it.
C29_CreatedAtFixed ==
  [][\A key \in DOMAIN store \cap DOMAIN store' :
        "createdAt" \in DOMAIN JSONparse(store[key]) =>
          /\ "createdAt" \in DOMAIN JSONparse(store'[key])
          /\ JSONparse(store'[key]).createdAt = JSONparse(store[key]).createdAt
    ]_vars

\* C30: a list that runs while keys are deleted and written still answers
\* success: the turn of its loop for a key that was deleted after redis.keys
\* pushes nothing and the loop goes on; the turn for a key that holds a value
\* pushes that value as the entry's config; no entry has a null config; and no
\* step of the list writes to the store.
C30_ListUnderDelete ==
  /\ [](\A p \in Procs : req[p].pc = "listLoop" =>
          /\ listResponse(req[p]).success
          /\ \A r \in listResponse(req[p]).routes : r.config # NULL)
  /\ [][\A p \in Procs : \A key \in ListKeySet :
          ListGet(p, key, "ok") =>
            /\ store' = store
            /\ req'[p].pc = "listLoop"
            /\ IF key \in DOMAIN store
               THEN req'[p].routes = req[p].routes \cup
                      {[endpoint |-> listEndpoint(key), config |-> JSONparse(store[key]),
                        url |-> <<"/">> \o key]}
               ELSE req'[p].routes = req[p].routes
       ]_vars
  /\ [][\A p \in Procs :
          (req[p].pc = "listLoop" /\ req'[p] # req[p]) => store' = store]_vars

\* a list went through all its keys and left out one that was deleted under it,
\* next to one it lists
C30_Witness ==
  \E p \in Procs :
    /\ req[p].pc = "listLoop"
    /\ req[p].todo = {}
    /\ req[p].routes # {}
    /\ \E key \in req[p].keys : \A r \in req[p].routes : r.endpoint # listEndpoint(key)

====
